---- MODULE Spec2Model ----
(***************************************************************************)
(* Model of src/message.rs: the default WebSocket Message, its view as a   *)
(* single data frame, and the reassembly of a Vec of data frames into a    *)
(* Message (from_dataframes).                                              *)
(*                                                                         *)
(* A Rust String is modelled as a sequence of Unicode code points, a byte  *)
(* buffer as a sequence of numbers 0..255; into_bytes/as_bytes is UTF-8    *)
(* encoding and bytes_to_string is UTF-8 decoding.  Option<u16> is the     *)
(* empty sequence (None) or a one-element sequence (Some(code)).           *)
(***************************************************************************)
EXTENDS Integers, Sequences, FiniteSets, TLC

\* ------------------------------------------------------------------ bounds
MaxLen == 2
MaxFrames == 2
MaxBytes == 2
SinkCap == 6

\* ------------------------------------------------------- input alphabets
CodePoints == {97, 233, 8364}
DataBytes == {3, 232}
FrameBytes == {97, 195}
StatusCodes == {0, 1000, 65535}
Bye == <<98, 121, 101>>

RECURSIVE SeqsUpTo(_, _)
SeqsUpTo(S, n) ==
    IF n = 0 THEN {<<>>}
    ELSE LET shorter == SeqsUpTo(S, n - 1)
         IN  shorter \cup {Append(s, x) : s \in {t \in shorter : Len(t) = n - 1}, x \in S}

Strings == SeqsUpTo(CodePoints, MaxLen) \cup {Bye}
Datas == SeqsUpTo(DataBytes, MaxLen)

\* ---------------------------------------------------------- vocabulary
Opcodes == {"Continuation", "Text", "Binary", "Close", "Ping", "Pong", "Control5"}

FALSE_RESERVED_BITS == <<FALSE, FALSE, FALSE>>

ReservedVals == {<<FALSE, FALSE, FALSE>>, <<TRUE, FALSE, FALSE>>}

None == <<>>
Some(x) == <<x>>

\* ------------------------------------------------------------- Message
Message(code, status, payload) ==
    [opcode |-> code, cd_status_code |-> status, payload |-> payload]

NoMsg == Message("", None, <<>>)

\* UTF-8 encoding of one code point (String::into_bytes / str::as_bytes).
EncodeChar(c) ==
    IF c < 128 THEN <<c>>
    ELSE IF c < 2048 THEN <<192 + (c \div 64), 128 + (c % 64)>>
    ELSE IF c < 65536 THEN
        <<224 + (c \div 4096), 128 + ((c \div 64) % 64), 128 + (c % 64)>>
    ELSE <<240 + (c \div 262144), 128 + ((c \div 4096) % 64),
           128 + ((c \div 64) % 64), 128 + (c % 64)>>

RECURSIVE into_bytes(_)
into_bytes(s) ==
    IF s = <<>> THEN <<>> ELSE EncodeChar(Head(s)) \o into_bytes(Tail(s))

text(data) == Message("Text", None, into_bytes(data))

binary(data) == Message("Binary", None, data)

close == Message("Close", None, <<>>)

close_because(code, reason) == Message("Close", Some(code), into_bytes(reason))

ping(data) == Message("Ping", None, data)

pong(data) == Message("Pong", None, data)

\* Message values written as struct literals (all three fields are pub).
Literals ==
    {Message(o, s, p) : o \in Opcodes, s \in {None, Some(1000)}, p \in {<<>>, <<97>>}}

\* ------------------------------------------------- results and errors
NoErr == [kind |-> "", text |-> ""]
ProtocolError(t) == [kind |-> "ProtocolError", text |-> t]
Utf8Error == [kind |-> "Utf8Error", text |-> "invalid utf-8 sequence"]
IoShortRead == [kind |-> "IoError", text |-> "UnexpectedEof"]

NoResult == [tag |-> "None", msg |-> NoMsg, err |-> NoErr]
Ok(m) == [tag |-> "Ok", msg |-> m, err |-> NoErr]
Err(e) == [tag |-> "Err", msg |-> NoMsg, err |-> e]
Panic == [tag |-> "Panic", msg |-> NoMsg, err |-> NoErr]

ErrNoFrames == Err(ProtocolError("No dataframes provided"))
ErrNonContinuation == Err(ProtocolError("Unexpected non-continuation data frame"))
ErrReserved == Err(ProtocolError("Unsupported reserved bits received"))
ErrOpcode == Err(ProtocolError("Unsupported opcode received"))

\* ------------------------------------------ the DataFrame capability
\* D is the frame type of the Vec<D>: "Message" (the impl in this file) or
\* "Frame" (any other implementor, a record opcode/reserved/payload).
Frame(o, r, p) == [opcode |-> o, reserved |-> r, payload |-> p]

is_last(m) == TRUE

opcode(D, f) == f.opcode

reserved(D, f) == IF D = "Message" THEN FALSE_RESERVED_BITS ELSE f.reserved

\* payload() of a Message is unimplemented!(): calling it panics.
payload_panics(D) == D = "Message"

payload(D, f) == f.payload

\* ----------------------------------------------------------- the sink
\* A bounded sink (a cursor over a slice of SinkCap bytes): write_all writes
\* what fits and fails when the buffer does not fit entirely.
write_all(s, buf) ==
    IF Len(s) + Len(buf) <= SinkCap
    THEN [ok |-> TRUE, sink |-> s \o buf]
    ELSE [ok |-> FALSE, sink |-> s \o SubSeq(buf, 1, SinkCap - Len(s))]

write_u16_le(s, n) == write_all(s, <<n % 256, n \div 256>>)

write_u16_be(s, n) == write_all(s, <<n \div 256, n % 256>>)

write_payload(m, s) ==
    IF m.cd_status_code # None
    THEN LET w == write_u16_be(s, m.cd_status_code[1])
         IN  IF ~w.ok THEN w ELSE write_all(w.sink, m.payload)
    ELSE write_all(s, m.payload)

\* ------------------------------------------------------ Frame Encoder
dataframes_take2(m) == <<m, m>>

dataframes(m) == <<m>>

\* --------------------------------------------------- Frame Reassembler
IsCont(b) == b >= 128 /\ b <= 191

\* ws::util::message::bytes_to_string: strict UTF-8 decoding of a buffer.
\* Returns [ok, str]; ok is FALSE on any malformed, truncated, overlong or
\* surrogate sequence.
RECURSIVE bytes_to_string(_)
bytes_to_string(b) ==
    IF b = <<>> THEN [ok |-> TRUE, str |-> <<>>]
    ELSE
      LET b1 == b[1]
          n  == Len(b)
          step(k, cp) ==
              LET rest == bytes_to_string(SubSeq(b, k + 1, n))
              IN  IF rest.ok THEN [ok |-> TRUE, str |-> <<cp>> \o rest.str]
                  ELSE [ok |-> FALSE, str |-> <<>>]
      IN
        IF b1 < 128 THEN step(1, b1)
        ELSE IF b1 >= 194 /\ b1 <= 223 /\ n >= 2 /\ IsCont(b[2])
          THEN step(2, (b1 - 192) * 64 + (b[2] - 128))
        ELSE IF b1 >= 224 /\ b1 <= 239 /\ n >= 3 /\ IsCont(b[2]) /\ IsCont(b[3])
                /\ (b1 = 224 => b[2] >= 160) /\ (b1 = 237 => b[2] <= 159)
          THEN step(3, (b1 - 224) * 4096 + (b[2] - 128) * 64 + (b[3] - 128))
        ELSE IF b1 >= 240 /\ b1 <= 244 /\ n >= 4
                /\ IsCont(b[2]) /\ IsCont(b[3]) /\ IsCont(b[4])
                /\ (b1 = 240 => b[2] >= 144) /\ (b1 = 244 => b[2] <= 143)
          THEN step(4, (b1 - 240) * 262144 + (b[2] - 128) * 4096
                        + (b[3] - 128) * 64 + (b[4] - 128))
        ELSE [ok |-> FALSE, str |-> <<>>]

\* ReadBytesExt::read_u16::<BigEndian> on a slice of at least two bytes.
read_u16_be(data) == data[1] * 256 + data[2]

\* The for loop over frames.iter(), from frame i on, with the bytes gathered
\* so far.  Returns [res, data]: res is NoResult when every frame passed.
RECURSIVE validate_swapped(_, _, _, _)
validate_swapped(fs, D, i, data) ==
    IF i > Len(fs) THEN [res |-> NoResult, data |-> data]
    ELSE IF reserved(D, fs[i]) # <<FALSE, FALSE, FALSE>>
      THEN [res |-> ErrReserved, data |-> data]
    ELSE IF opcode(D, fs[i]) # "Continuation"
      THEN [res |-> ErrNonContinuation, data |-> data]
    ELSE IF payload_panics(D) THEN [res |-> Panic, data |-> data]
    ELSE validate_swapped(fs, D, i + 1, data \o payload(D, fs[i]))

RECURSIVE validate(_, _, _, _)
validate(fs, D, i, data) ==
    IF i > Len(fs) THEN [res |-> NoResult, data |-> data]
    ELSE IF opcode(D, fs[i]) # "Continuation"
      THEN [res |-> ErrNonContinuation, data |-> data]
    ELSE IF reserved(D, fs[i]) # <<FALSE, FALSE, FALSE>>
      THEN [res |-> ErrReserved, data |-> data]
    ELSE IF payload_panics(D) THEN [res |-> Panic, data |-> data]
    ELSE validate(fs, D, i + 1, data \o payload(D, fs[i]))

\* The final match on the opcode of the first frame.
build(op, data) ==
    CASE op = "Text" ->
           LET s == bytes_to_string(data)
           IN  IF s.ok THEN Ok(text(s.str)) ELSE Err(Utf8Error)
      [] op = "Binary" -> Ok(binary(data))
      [] op = "Close" ->
           IF Len(data) > 0
           THEN IF Len(data) < 2 THEN Err(IoShortRead)
                ELSE LET status_code == read_u16_be(data)
                         reason == bytes_to_string(SubSeq(data, 3, Len(data)))
                     IN  IF reason.ok
                         THEN Ok(close_because(status_code, reason.str))
                         ELSE Err(Utf8Error)
           ELSE Ok(close)
      [] op = "Ping" -> Ok(ping(data))
      [] op = "Pong" -> Ok(pong(data))
      [] OTHER -> ErrOpcode

from_dataframes_off_by_one(fs, D) ==
    IF Len(fs) <= 1 THEN ErrNoFrames
    ELSE LET v == validate(fs, D, 1, <<>>)
         IN  IF v.res # NoResult THEN v.res
             ELSE build(opcode(D, fs[1]), v.data)

from_dataframes(fs, D) ==
    IF fs = <<>> THEN ErrNoFrames
    ELSE LET v == validate(fs, D, 1, <<>>)
         IN  IF v.res # NoResult THEN v.res
             ELSE build(opcode(D, fs[1]), v.data)

\* ================================================================ state
VARIABLES msg, frames, dtype, result, sink, wres

vars == <<msg, frames, dtype, result, sink, wres>>

Init ==
    /\ msg = NoMsg
    /\ frames = <<>>
    /\ dtype = "Frame"
    /\ result = NoResult
    /\ sink = <<>>
    /\ wres = "none"

Fresh == msg = NoMsg /\ frames = <<>> /\ result = NoResult

Construct(m) ==
    /\ Fresh
    /\ msg' = m
    /\ dtype' = "Message"
    /\ UNCHANGED <<frames, result, sink, wres>>

Text == \E s \in Strings : Construct(text(s))

Binary == \E d \in Datas : Construct(binary(d))

Close == Construct(close)

CloseBecause == \E c \in StatusCodes, s \in Strings : Construct(close_because(c, s))

Ping == \E d \in Datas : Construct(ping(d))

Pong == \E d \in Datas : Construct(pong(d))

MessageLiteral == \E m \in Literals : Construct(m)

\* m.dataframes(): the one-frame sequence is handed to the caller.
Dataframes ==
    /\ msg # NoMsg
    /\ result = NoResult
    /\ frames' = dataframes(msg)
    /\ UNCHANGED <<msg, dtype, result, sink, wres>>

\* m.write_payload(&mut sink)
WritePayload ==
    /\ msg # NoMsg
    /\ LET w == write_payload(msg, sink)
       IN  /\ sink' = w.sink
           /\ wres' = IF w.ok THEN "ok" ELSE "err"
    /\ UNCHANGED <<msg, frames, dtype, result>>

TotalBytes(fs) ==
    LET RECURSIVE sum(_)
        sum(i) == IF i = 0 THEN 0 ELSE Len(fs[i].payload) + sum(i - 1)
    IN  sum(Len(fs))

\* The caller collects one more received frame into a Vec<D>, D a frame type
\* other than Message.
PushFrame ==
    /\ msg = NoMsg
    /\ result = NoResult
    /\ frames = <<>> \/ dtype = "Frame"
    /\ Len(frames) < MaxFrames
    /\ \E o \in Opcodes, r \in ReservedVals, p \in SeqsUpTo(FrameBytes, MaxBytes) :
          /\ TotalBytes(frames) + Len(p) <= MaxBytes
          /\ frames' = Append(frames, Frame(o, r, p))
    /\ dtype' = "Frame"
    /\ UNCHANGED <<msg, result, sink, wres>>

\* The caller collects one more Message value into a Vec<Message>.
PushMessage ==
    /\ msg = NoMsg
    /\ result = NoResult
    /\ frames = <<>> \/ dtype = "Message"
    /\ Len(frames) < MaxFrames
    /\ \E m \in Literals : frames' = Append(frames, m)
    /\ dtype' = "Message"
    /\ UNCHANGED <<msg, result, sink, wres>>

\* Message::from_dataframes(frames)
FromDataframes ==
    /\ result = NoResult
    /\ result' = from_dataframes(frames, dtype)
    /\ UNCHANGED <<msg, frames, dtype, sink, wres>>

Next ==
    \/ Text
    \/ Binary
    \/ Close
    \/ CloseBecause
    \/ Ping
    \/ Pong
    \/ MessageLiteral
    \/ Dataframes
    \/ WritePayload
    \/ PushFrame
    \/ PushMessage
    \/ FromDataframes

Spec == Init /\ [][Next]_vars

\* ======================================================= vocabulary of
\* the properties: what the reassembly contract says about a frame sequence
Done == result # NoResult

RealOpcodes == {"Text", "Binary", "Close", "Ping", "Pong"}

FrameOpcode(i) == frames[i].opcode

FrameReserved(i) == IF dtype = "Message" THEN <<FALSE, FALSE, FALSE>> ELSE frames[i].reserved

AllReservedClear == \A i \in 1..Len(frames) : FrameReserved(i) = <<FALSE, FALSE, FALSE>>

LaterAreContinuation == \A i \in 2..Len(frames) : FrameOpcode(i) = "Continuation"

RECURSIVE ConcatUpTo(_)
ConcatUpTo(i) == IF i = 0 THEN <<>> ELSE ConcatUpTo(i - 1) \o frames[i].payload

Concatenated == ConcatUpTo(Len(frames))

\* C1: for every string s, from_dataframes applied to the frames of
\* text(s).dataframes() returns Ok with a Message equal to text(s).
C1_TextRoundTrip ==
    \A s \in Strings :
        (Done /\ dtype = "Message" /\ msg = text(s) /\ frames = <<text(s)>>)
            => result = Ok(Message("Text", None, into_bytes(s)))

\* C2: a non-empty sequence whose first frame is Binary, Ping or Pong, whose
\* later frames are all Continuation and whose reserved bits are all clear
\* reassembles to the first frame's kind of Message over the concatenation, in
\* order, of all payloads.
C2_FirstOpcodeBuilds ==
    (Done /\ frames # <<>> /\ FrameOpcode(1) \in {"Binary", "Ping", "Pong"}
          /\ LaterAreContinuation /\ AllReservedClear)
        => result = Ok(Message(FrameOpcode(1), None, Concatenated))

\* C3: with all reserved bits clear, a non-empty sequence fails with
\* "unexpected non-continuation data frame" if and only if some frame at
\* position 2 or later is not a Continuation frame; the first frame is exempt.
C3_ContinuationRule ==
    (Done /\ frames # <<>> /\ AllReservedClear)
        => (result = ErrNonContinuation
              <=> \E i \in 2..Len(frames) : FrameOpcode(i) # "Continuation")

\* C4: an otherwise valid sequence (first frame a real opcode, later frames
\* Continuation) in which some frame, the first included, has a reserved bit
\* set fails with "unsupported reserved bits received".
C4_ReservedBits ==
    (Done /\ frames # <<>> /\ FrameOpcode(1) \in RealOpcodes
          /\ LaterAreContinuation /\ ~AllReservedClear)
        => result = ErrReserved

\* C5: a write_payload that the sink accepts appends exactly the 2-byte
\* big-endian status code (when there is one) followed by the payload bytes,
\* and nothing else; close_because(1000, "bye") appends 03 E8 'b' 'y' 'e', and
\* binary(b) appends exactly b.
C5_WritePayloadLayout ==
    [][(WritePayload /\ wres' = "ok") =>
          /\ msg.cd_status_code = None => sink' = sink \o msg.payload
          /\ msg.cd_status_code # None =>
                LET code == msg.cd_status_code[1]
                IN  sink' = sink \o <<code \div 256, code % 256>> \o msg.payload
          /\ msg = close_because(1000, Bye) => sink' = sink \o <<3, 232, 98, 121, 101>>
          /\ \A b \in Datas : msg = binary(b) => sink' = sink \o b
      ]_vars

C5_Witness ==
    /\ wres = "ok"
    /\ msg = close_because(1000, Bye)
    /\ sink = <<3, 232, 98, 121, 101>>

\* C6: a valid sequence whose first frame is Close reassembles to close() when
\* the concatenated payload is empty, to close_because(code, reason) with the
\* big-endian code of the first two bytes and the UTF-8 decoded rest when it
\* has at least two bytes, and fails with a short read when it has one byte.
C6_CloseReassembly ==
    (Done /\ frames # <<>> /\ FrameOpcode(1) = "Close"
          /\ LaterAreContinuation /\ AllReservedClear)
        => LET d == Concatenated
               reason == bytes_to_string(SubSeq(d, 3, Len(d)))
           IN  /\ Len(d) = 0 => result = Ok(Message("Close", None, <<>>))
               /\ Len(d) = 1 => result = Err(IoShortRead)
               /\ (Len(d) >= 2 /\ reason.ok) =>
                     result = Ok(Message("Close", Some(d[1] * 256 + d[2]),
                                         SubSeq(d, 3, Len(d))))

\* C7: from_dataframes fails with the ProtocolError "No dataframes provided"
\* on the empty sequence, and with that error on no non-empty sequence.
C7_EmptyInput ==
    Done => (result = Err(ProtocolError("No dataframes provided")) <=> frames = <<>>)

C7_Witness ==
    /\ Done
    /\ frames = <<>>
    /\ result = Err(ProtocolError("No dataframes provided"))

\* C8: a sequence that passes the continuation check (later frames are
\* Continuation) and the reserved-bit check and whose first opcode is none of
\* Text, Binary, Close, Ping, Pong fails with "unsupported opcode received";
\* and no returned Message has an opcode outside those five.
C8_UnsupportedOpcode ==
    /\ (Done /\ frames # <<>> /\ FrameOpcode(1) \notin RealOpcodes
             /\ LaterAreContinuation /\ AllReservedClear)
          => result = ErrOpcode
    /\ (Done /\ result.tag = "Ok") => result.msg.opcode \in RealOpcodes

\* C9: dataframes() yields exactly one frame with the opcode, status code and
\* payload of the Message, reporting is_last() = true and reserved() all
\* false; the call leaves the Message unchanged and a repeated call yields the
\* same single frame.
C9_SingleFrame ==
    [][Dataframes =>
          /\ msg' = msg
          /\ Len(frames') = 1
          /\ frames'[1].opcode = msg.opcode
          /\ frames'[1].cd_status_code = msg.cd_status_code
          /\ frames'[1].payload = msg.payload
          /\ is_last(frames'[1]) = TRUE
          /\ reserved("Message", frames'[1]) = <<FALSE, FALSE, FALSE>>
          /\ frames # <<>> => frames' = frames
      ]_vars

C9_Witness ==
    /\ msg # NoMsg
    /\ msg.cd_status_code # None
    /\ msg.payload # <<>>
    /\ frames = <<msg>>

\* The two per-frame checks of the validation loop.
OpcodeCheckFails(i) == FrameOpcode(i) # "Continuation"

ReservedCheckFails(i) == FrameReserved(i) # <<FALSE, FALSE, FALSE>>

FramePasses(i) == ~OpcodeCheckFails(i) /\ ~ReservedCheckFails(i)

FirstFailing ==
    CHOOSE i \in 1..Len(frames) : ~FramePasses(i) /\ \A k \in 1..(i - 1) : FramePasses(k)

\* C10: the empty-sequence error precedes everything; frames are validated in
\* order, the opcode check before the reserved-bit check within a frame, and
\* the error of the first failed check is the one reported (a call that
\* panicked in payload() of an earlier Message frame found no violation and
\* reports nothing); "unsupported opcode" and the decoding errors are
\* reported only when every frame passed both per-frame checks.
C10_ErrorPrecedence ==
    Done =>
      /\ frames = <<>> => result = ErrNoFrames
      /\ (frames # <<>> /\ \E i \in 1..Len(frames) : ~FramePasses(i)) =>
            \/ result = Panic /\ dtype = "Message" /\ FirstFailing > 1
            \/ result = IF OpcodeCheckFails(FirstFailing)
                        THEN ErrNonContinuation ELSE ErrReserved
      /\ (result.tag = "Err" /\ result \notin {ErrNoFrames, ErrNonContinuation, ErrReserved})
            => \A i \in 1..Len(frames) : FramePasses(i)

C10_Witness ==
    /\ Done
    /\ dtype = "Frame"
    /\ Len(frames) = 2
    /\ FramePasses(1)
    /\ OpcodeCheckFails(2)
    /\ ReservedCheckFails(2)
    /\ result = ErrNonContinuation

====
